---- MODULE Spec2Model ----
(***************************************************************************)
(* Region layout compiler of the hex editor tab (src/src/Tab.cpp):         *)
(* REHex::Tab::compute_regions merges the comment tree and the type        *)
(* partition of a document into one ordered list of regions, and           *)
(* REHex::Tab::repopulate_regions drives it (once over the file, or once   *)
(* per virtual segment) and hands the list to the document control.        *)
(*                                                                         *)
(* Two specifications share the definitions below:                         *)
(*   SpecCompile  one call of compute_regions, one loop iteration per step *)
(*   Spec         the Tab object and its event handlers, each handler one  *)
(*                atomic step that runs the compiles it calls              *)
(***************************************************************************)
EXTENDS Integers, Sequences, FiniteSets, TLC

VARIABLES
    doc,        \* the document: comments, data types, buffer length, virtual segments
    cr,         \* the frame of compute_regions: arguments, locals, position
    tab,        \* the fields of REHex::Tab the region code reads and writes
    doc_ctrl,   \* the region list held by the document control
    hist        \* history of the last handler (what it requested and compiled)

vars == <<doc, cr, tab, doc_ctrl, hist>>

NULL == 0

----------------------------------------------------------------------------
(* Bounds of the model *)

MaxNibbles == 4      \* offsets and lengths range over 0 .. MaxNibbles half-bytes
MaxComments == 2     \* comments per document in the enumerated family
MaxTypes == 2        \* type assignments per document in the enumerated family
MaxDeferred == 2     \* the count of deferred requests is kept up to this value
MaxFreezes == 2      \* freezes that may be outstanding at a time

----------------------------------------------------------------------------
(* BitOffset: a byte + bit position, held as a count of bits *)

BitOffset(byte, bit) == (byte * 8) + bit

BitOffset_ZERO == BitOffset(0, 0)

BitOffset_byte(b) == b \div 8

BitOffset_bit(b) == b % 8

byte_aligned(b) == BitOffset_bit(b) = 0

BitOffset_mod(a, b) == a % b

Min(a, b) == IF a < b THEN a ELSE b

----------------------------------------------------------------------------
(* Inline comment modes and document display modes *)

ICM_HIDDEN == "ICM_HIDDEN"
ICM_FULL == "ICM_FULL"
ICM_SHORT == "ICM_SHORT"
ICM_FULL_INDENT == "ICM_FULL_INDENT"
ICM_SHORT_INDENT == "ICM_SHORT_INDENT"

InlineCommentModes == {ICM_HIDDEN, ICM_FULL, ICM_SHORT, ICM_FULL_INDENT, ICM_SHORT_INDENT}

DDM_NORMAL == "DDM_NORMAL"
DDM_VIRTUAL == "DDM_VIRTUAL"

DocumentDisplayModes == {DDM_NORMAL, DDM_VIRTUAL}

----------------------------------------------------------------------------
(* Data type registry: name -> descriptor, the null pointer for an unknown name *)

\* region_made: the length of the region the factory returns, "asked" for the
\* length it is called with
DataType(factory, word, fixed) ==
    [null |-> FALSE, region_factory |-> factory, word_size |-> word,
     region_fixed_size |-> fixed, region_made |-> "asked"]

NullDataType ==
    [null |-> TRUE, region_factory |-> FALSE, word_size |-> 0, region_fixed_size |-> 0,
     region_made |-> "asked"]

\* a type of bytes whose factory returns a region of another length than asked
MisbehavingDataType(made) ==
    [DataType(TRUE, BitOffset(1, 0), BitOffset_ZERO) EXCEPT !.region_made = made]

DataTypeRegistry_get_type(name) ==
    CASE name = ""    -> DataType(FALSE, BitOffset(1, 0), BitOffset_ZERO)
      [] name = "w16" -> DataType(TRUE, BitOffset(2, 0), BitOffset_ZERO)
      [] name = "f8"  -> DataType(TRUE, BitOffset(1, 0), BitOffset(1, 0))
      [] name = "w32" -> DataType(TRUE, BitOffset(4, 0), BitOffset_ZERO)
      [] name = "zero" -> MisbehavingDataType("zero")
      [] name = "over" -> MisbehavingDataType("over")
      [] OTHER        -> NullDataType

----------------------------------------------------------------------------
(* Regions *)

CommentRegion(c_offset, c_length, c_text, truncate, indent_offset, indent_length) ==
    [kind |-> "comment", offset |-> c_offset, length |-> c_length, text |-> c_text,
     truncate |-> truncate, indent_offset |-> indent_offset,
     indent_length |-> indent_length]

DataRegionDocHighlight(d_offset, d_length, virt_offset) ==
    [kind |-> "raw", offset |-> d_offset, length |-> d_length, virt_offset |-> virt_offset]

BitArrayRegion(d_offset, d_length, virt_offset) ==
    [kind |-> "bits", offset |-> d_offset, length |-> d_length, virt_offset |-> virt_offset]

\* the call dt->region_factory(doc, d_offset, d_length, virt_offset)
region_factory(dt, d_offset, d_length, virt_offset) ==
    [kind |-> "typed", offset |-> d_offset,
     length |-> CASE dt.region_made = "zero" -> BitOffset_ZERO
                  [] dt.region_made = "over" -> d_length + BitOffset(1, 0)
                  [] OTHER -> d_length,
     virt_offset |-> virt_offset]

IsData(r) == r.kind \in {"raw", "bits", "typed"}

----------------------------------------------------------------------------
(* Comment tree: an arena of nodes in pre-order, links are indices, NULL = 0 *)

Key(o, l) == [offset |-> o, length |-> l]

KeyEnd(k) == k.offset + k.length

\* a precedes b in the tree's order: by offset, the enclosing key first
KeyBefore(a, b) == a.offset < b.offset \/ (a.offset = b.offset /\ a.length > b.length)

\* p encloses c: c lies within [p.offset, p.offset + p.length)
KeyContains(p, c) ==
    /\ p # c
    /\ p.length > 0
    /\ p.offset <= c.offset
    /\ c.offset < KeyEnd(p)
    /\ KeyEnd(c) <= KeyEnd(p)

\* two keys that overlap without one enclosing the other cannot both be set
KeysConflict(a, b) ==
    /\ a # b
    /\ a.length > 0 /\ b.length > 0
    /\ a.offset < KeyEnd(b) /\ b.offset < KeyEnd(a)
    /\ ~KeyContains(a, b) /\ ~KeyContains(b, a)

RECURSIVE SortKeys(_)
SortKeys(keys) ==
    IF keys = {} THEN <<>>
    ELSE LET first == CHOOSE k \in keys : \A o \in keys \ {k} : KeyBefore(k, o)
         IN  <<first>> \o SortKeys(keys \ {first})

NodeParent(ks, i) ==
    LET up == {j \in 1..(i - 1) : KeyContains(ks[j], ks[i])}
    IN  IF up = {} THEN NULL ELSE CHOOSE j \in up : \A k \in up : k <= j

NodeFirstChild(ks, i) ==
    IF i < Len(ks) /\ NodeParent(ks, i + 1) = i THEN i + 1 ELSE NULL

NodeNext(ks, i) ==
    LET sib == {j \in (i + 1)..Len(ks) : NodeParent(ks, j) = NodeParent(ks, i)}
    IN  IF sib = {} THEN NULL ELSE CHOOSE j \in sib : \A k \in sib : j <= k

CommentTree(keys) ==
    LET ks == SortKeys(keys)
    IN  [i \in 1..Len(ks) |->
            [offset |-> ks[i].offset, length |-> ks[i].length, text |-> "A",
             parent |-> NodeParent(ks, i),
             first_child |-> NodeFirstChild(ks, i),
             next |-> NodeNext(ks, i)]]

first_root_node(comments) == IF Len(comments) = 0 THEN NULL ELSE 1

\* the walk used at both places of compute_regions once a node has no child to
\* descend into: climb while there is no next sibling, then take the sibling
RECURSIVE ClimbToNext(_, _)
ClimbToNext(comments, n) ==
    IF comments[n].next = NULL /\ comments[n].parent # NULL
    THEN ClimbToNext(comments, comments[n].parent)
    ELSE comments[n].next

----------------------------------------------------------------------------
(* compute_regions: the frame (arguments and locals) and its steps *)

Frame(pc, real_offset_base, virt_offset_base, length, inline_comment_mode, next_comment, types_iter, next_data, next_virt, remain_data, regions, dr_limit) ==
    [pc |-> pc, assertion |-> "",
     real_offset_base |-> real_offset_base, virt_offset_base |-> virt_offset_base,
     length |-> length, inline_comment_mode |-> inline_comment_mode,
     next_comment |-> next_comment, types_iter |-> types_iter,
     next_data |-> next_data, next_virt |-> next_virt, remain_data |-> remain_data,
     regions |-> regions, dr_limit |-> dr_limit]

\* no call made yet
IdleFrame == Frame("idle", 0, 0, 0, ICM_HIDDEN, NULL, 1, 0, 0, 0, <<>>, <<>>)

Aborted(st, what) == [st EXCEPT !.pc = "abort", !.assertion = what]

nest(inline_comment_mode) ==
    inline_comment_mode = ICM_SHORT_INDENT \/ inline_comment_mode = ICM_FULL_INDENT

truncate(inline_comment_mode) ==
    inline_comment_mode = ICM_SHORT \/ inline_comment_mode = ICM_SHORT_INDENT

types_end(types) == Len(types) + 1

Top(stack) == stack[Len(stack)]

Last(seq) == seq[Len(seq)]

Pop(stack) == SubSeq(stack, 1, Len(stack) - 1)

\* one statement after another: v is computed once, and rest goes on from it
Then(v, rest(_)) == CHOOSE r \in {rest(x) : x \in {v}} : TRUE

\* skip over the comments that start before next_data
RECURSIVE SkipComments(_, _, _)
SkipComments(comments, next_comment, next_data) ==
    IF next_comment # NULL /\ comments[next_comment].offset < next_data
    THEN LET first_child == comments[next_comment].first_child
         IN  IF first_child # NULL
                /\ (comments[first_child].offset = comments[next_comment].offset
                    \/ comments[first_child].offset >= next_data)
             THEN SkipComments(comments, first_child, next_data)
             ELSE SkipComments(comments, ClimbToNext(comments, next_comment), next_data)
    ELSE next_comment

\* skip over the type assignments that end at or before next_data
RECURSIVE SkipTypes(_, _, _)
SkipTypes(types, types_iter, next_data) ==
    IF types_iter # types_end(types)
       /\ types[types_iter].offset + types[types_iter].length <= next_data
    THEN SkipTypes(types, types_iter + 1, next_data)
    ELSE types_iter

\* as ComputeRegionsEntry, with a region list that outlives the call
ComputeRegionsEntry_KeepsRegions(old, d, real_offset_base, virt_offset_base, length, inline_comment_mode) ==
    Frame("loop", real_offset_base, virt_offset_base, length, inline_comment_mode,
          IF inline_comment_mode = ICM_HIDDEN
          THEN NULL
          ELSE SkipComments(d.comments, first_root_node(d.comments), real_offset_base),
          SkipTypes(d.types, 1, real_offset_base),
          real_offset_base, virt_offset_base, length,
          old.regions, <<>>)

\* as ComputeRegionsEntry, keeping the comment cursor in the hidden mode
ComputeRegionsEntry_HiddenWalks(old, d, real_offset_base, virt_offset_base, length, inline_comment_mode) ==
    Frame("loop", real_offset_base, virt_offset_base, length, inline_comment_mode,
          SkipComments(d.comments, first_root_node(d.comments), real_offset_base),
          SkipTypes(d.types, 1, real_offset_base),
          real_offset_base, virt_offset_base, length,
          <<>>, <<>>)

\* as ComputeRegionsEntry, with the virtual cursor started at the real base
ComputeRegionsEntry_VirtAtReal(old, d, real_offset_base, virt_offset_base, length, inline_comment_mode) ==
    Frame("loop", real_offset_base, virt_offset_base, length, inline_comment_mode,
          IF inline_comment_mode = ICM_HIDDEN
          THEN NULL
          ELSE SkipComments(d.comments, first_root_node(d.comments), real_offset_base),
          SkipTypes(d.types, 1, real_offset_base),
          real_offset_base, real_offset_base, length,
          <<>>, <<>>)

\* entry of compute_regions up to the loop; old is what the previous call left
ComputeRegionsEntry(old, d, real_offset_base, virt_offset_base, length, inline_comment_mode) ==
    Frame("loop", real_offset_base, virt_offset_base, length, inline_comment_mode,
          IF inline_comment_mode = ICM_HIDDEN
          THEN NULL
          ELSE SkipComments(d.comments, first_root_node(d.comments), real_offset_base),
          SkipTypes(d.types, 1, real_offset_base),
          real_offset_base, virt_offset_base, length,
          <<>>, <<>>)

RECURSIVE PopLimits(_, _)
PopLimits(dr_limit, next_data) ==
    IF dr_limit # <<>> /\ Top(dr_limit) <= next_data
    THEN PopLimits(Pop(dr_limit), next_data)
    ELSE dr_limit

\* as IndentLength, without the limit of what remains of the range
IndentLength_WholeComment(inline_comment_mode, c, remain_data) ==
    IF nest(inline_comment_mode)
    THEN c.length
    ELSE BitOffset_ZERO

\* as IndentLength, without the limit of the comment's own length
IndentLength_WholeRemainder(inline_comment_mode, c, remain_data) ==
    IF nest(inline_comment_mode)
    THEN remain_data
    ELSE BitOffset_ZERO

\* the indent sub-range of a comment region covers the comment's data, in a nesting mode
IndentLength(inline_comment_mode, c, remain_data) ==
    IF nest(inline_comment_mode)
    THEN Min(c.length, remain_data)
    ELSE BitOffset_ZERO

\* as PushesLimit, for a comment of any length
PushesLimit_AnyLength(inline_comment_mode, c) ==
    nest(inline_comment_mode)

\* a comment opens a nesting level when the mode nests and it has data of its own
PushesLimit(inline_comment_mode, c) ==
    nest(inline_comment_mode) /\ c.length > 0

\* as PushAllowed, whatever is on the stack
PushAllowed_Always(st, c) == TRUE

\* the close boundary of comment c may go on the stack: it is empty, or c ends
\* no later than the comment that is open
PushAllowed(st, c) ==
    st.dr_limit = <<>> \/ Top(st.dr_limit) >= c.offset + c.length

\* the comments at next_data, from the enclosing one to the enclosed ones
RECURSIVE EmitComments(_, _)
EmitComments(st, d) ==
    IF st.next_comment # NULL /\ d.comments[st.next_comment].offset = st.next_data
    THEN LET c == d.comments[st.next_comment]
             indent_offset == st.next_virt
             indent_length == IndentLength(st.inline_comment_mode, c, st.remain_data)
             pushed == [st EXCEPT !.regions = Append(@,
                            CommentRegion(c.offset, c.length, c.text,
                                          truncate(st.inline_comment_mode),
                                          indent_offset, indent_length))]
             advance(s) == [s EXCEPT !.next_comment =
                                IF c.first_child # NULL
                                THEN c.first_child
                                ELSE ClimbToNext(d.comments, st.next_comment)]
         IN  IF PushesLimit(st.inline_comment_mode, c)
             THEN IF PushAllowed(st, c)
                  THEN Then(advance([pushed EXCEPT !.dr_limit =
                                        Append(@, c.offset + c.length)]),
                            LAMBDA s : EmitComments(s, d))
                  ELSE Aborted(pushed, "dr_limit.top() >= comment end")
             ELSE Then(advance(pushed), LAMBDA s : EmitComments(s, d))
    ELSE st

\* as ClampToComment, running over the next comment
ClampToComment_Unclamped(st, d, dr_length) == dr_length

\* the length of the next data region before the type is looked at
ClampToComment(st, d, dr_length) ==
    IF st.next_comment # NULL
       /\ dr_length > (d.comments[st.next_comment].offset - st.next_data)
    THEN d.comments[st.next_comment].offset - st.next_data
    ELSE dr_length

LimitReached(st, dr_length) ==
    st.dr_limit # <<>> /\ (st.next_data + dr_length) >= Top(st.dr_limit)

\* as ClampToLimit, running over the end of the open comment
ClampToLimit_Unclamped(st, dr_length) == dr_length

ClampToLimit(st, dr_length) ==
    IF LimitReached(st, dr_length) THEN Top(st.dr_limit) - st.next_data ELSE dr_length

\* as ClampToType, running over the end of the type assignment
ClampToType_Unclamped(st, d, dr_length) == dr_length

ClampToType(st, d, dr_length) ==
    Min(dr_length,
        d.types[st.types_iter].length - (st.next_data - d.types[st.types_iter].offset))

\* the type's own region is made: it has a factory and the length is enough for it
UsesFactory(dt, dr_length) ==
    ~dt.null /\ dt.region_factory /\ dt.region_fixed_size <= dr_length

\* as TypedLength, without the rounding to whole words
TypedLength_NoRounding(dt, dr_length) ==
    IF dt.region_fixed_size > BitOffset_ZERO /\ dr_length > dt.region_fixed_size
    THEN dt.region_fixed_size
    ELSE dr_length

\* the length the factory is asked for
TypedLength(dt, dr_length) ==
    IF dt.region_fixed_size > BitOffset_ZERO /\ dr_length > dt.region_fixed_size
    THEN dt.region_fixed_size
    ELSE IF BitOffset_mod(dr_length, dt.word_size) # BitOffset_ZERO
         THEN dr_length - BitOffset_mod(dr_length, dt.word_size)
         ELSE dr_length

\* the data region at next_data and the advance past it
\* as NextType, with a cursor that stays where it is
NextType_Stays(d, types_iter, next_data) == types_iter

\* the type cursor after a step that took next_data to where it is now
NextType(d, types_iter, next_data) ==
    IF next_data >= (d.types[types_iter].offset + d.types[types_iter].length)
    THEN types_iter + 1
    ELSE types_iter

\* as UntypedLength, keeping the spare bits in the raw region
UntypedLength_KeepsBits(dr_length) == dr_length

\* the length of the region made for a span without a typed region: spare bits
\* alone stay as they are, otherwise the span is cut to whole bytes
UntypedLength(dr_length) ==
    IF dr_length < BitOffset(1, 0)
    THEN dr_length
    ELSE IF ~byte_aligned(dr_length)
         THEN BitOffset(BitOffset_byte(dr_length), 0)
         ELSE dr_length

EmitData(st, d, dr_length0) ==
    LET dt == DataTypeRegistry_get_type(d.types[st.types_iter].name)
        typed == UsesFactory(dt, dr_length0)
        dr_length ==
            IF typed
            THEN TypedLength(dt, dr_length0)
            ELSE UntypedLength(dr_length0)
        region ==
            IF typed
            THEN region_factory(dt, st.next_data, dr_length, st.next_virt)
            ELSE IF dr_length0 < BitOffset(1, 0)
                 THEN BitArrayRegion(st.next_data, dr_length, st.next_virt)
                 ELSE DataRegionDocHighlight(st.next_data, dr_length, st.next_virt)
        next_data == st.next_data + dr_length
    IN  IF typed /\ ~(dr_length > BitOffset_ZERO)
        THEN Aborted(st, "dr_length > BitOffset::ZERO")
        ELSE [st EXCEPT !.regions = Append(@, region),
                        !.next_data = next_data,
                        !.next_virt = @ + dr_length,
                        !.remain_data = @ - dr_length,
                        !.types_iter = NextType(d, @, next_data)]

\* as TypeCovers, taking the assignment at the cursor as it is
TypeCovers_Unchecked(st, d) == TRUE

\* the assignment at the type cursor covers next_data
TypeCovers(st, d) ==
    /\ d.types[st.types_iter].offset <= st.next_data
    /\ (d.types[st.types_iter].offset + d.types[st.types_iter].length) > st.next_data

\* one iteration of the loop of compute_regions
LoopBody(st, d) ==
    IF ~((st.next_data + st.remain_data) <= BitOffset(d.buffer_length, 0))
    THEN Aborted(st, "next_data + remain_data <= buffer_length")
    ELSE IF ~(st.next_comment = NULL \/ d.comments[st.next_comment].offset >= st.next_data)
    THEN Aborted(st, "next_comment offset >= next_data")
    ELSE Then([st EXCEPT !.dr_limit = PopLimits(@, st.next_data)], LAMBDA s1 :
         Then(EmitComments(s1, d), LAMBDA s2 :
         Then(ClampToComment(s2, d, s2.remain_data), LAMBDA l1 :
             IF s2.pc = "abort" THEN s2
             ELSE IF LimitReached(s2, l1) /\ ~(Top(s2.dr_limit) > s2.next_data)
             THEN Aborted(s2, "dr_limit.top() > next_data")
             ELSE IF s2.types_iter = types_end(d.types)
             THEN Aborted(s2, "types_iter != types.end()")
             ELSE IF ~TypeCovers(s2, d)
             THEN Aborted(s2, "types_iter covers next_data")
             ELSE Then(ClampToType(s2, d, ClampToLimit(s2, l1)), LAMBDA dr_length :
                       EmitData(s2, d, dr_length)))))

\* as LoopCondition, going on while a comment of the document is due at next_data
LoopCondition_CommentDue(st) ==
    \/ st.remain_data > 0
    \/ st.next_comment # NULL /\ doc.comments[st.next_comment].offset = st.next_data

\* the condition of the loop of compute_regions
LoopCondition(st) == st.remain_data > 0

\* the whole call: the loop runs until remain_data is used up or an assertion fails
RECURSIVE RunLoop(_, _)
RunLoop(st, d) ==
    IF st.pc = "loop" /\ LoopCondition(st)
    THEN Then(LoopBody(st, d), LAMBDA next : RunLoop(next, d))
    ELSE IF st.pc = "loop" THEN [st EXCEPT !.pc = "done"] ELSE st

compute_regions(old, d, real_offset_base, virt_offset_base, length, inline_comment_mode) ==
    Then(ComputeRegionsEntry(old, d, real_offset_base, virt_offset_base, length,
                             inline_comment_mode),
         LAMBDA st : RunLoop(st, d))

----------------------------------------------------------------------------
(* Documents *)

Document(comments, types, buffer_length, virt_to_real_segs) ==
    [comments |-> comments, types |-> types, buffer_length |-> buffer_length,
     virt_to_real_segs |-> virt_to_real_segs]

TypeRange(o, l, name) == [offset |-> o, length |-> l, name |-> name]

Segment(virt_offset, length, real_offset) ==
    [offset |-> virt_offset, length |-> length, real |-> real_offset]

\* the half-byte grid the enumerated documents are laid out on
Grid == {4 * i : i \in 0..MaxNibbles}

BufferLengths == 0..((MaxNibbles + 1) \div 2)

\* positions of a buffer of n bytes: the grid below its end, and its end
Positions(n) == {p \in Grid : p <= BitOffset(n, 0)} \cup {BitOffset(n, 0)}

TypeNames == {"", "w16", "f8"}

CommentKeys(n) ==
    {Key(o, e - o) : <<o, e>> \in {pe \in Grid \X Grid :
                                      pe[1] <= pe[2] /\ pe[2] <= BitOffset(n, 0)}}

KeySets(n) ==
    {ks \in SUBSET CommentKeys(n) :
        /\ Cardinality(ks) <= MaxComments
        /\ \A a \in ks : \A b \in ks : ~KeysConflict(a, b)}

\* the partitions of [0, n bytes) into at most MaxTypes assignments; neighbours
\* carry different types (equal neighbours are one assignment)
RECURSIVE PartitionsFrom(_, _, _, _)
PartitionsFrom(from, n, k, prev) ==
    IF from = BitOffset(n, 0) THEN {<<>>}
    ELSE IF k = 0 THEN {}
    ELSE UNION {
            {<<TypeRange(from, to - from, name)>> \o rest :
                rest \in PartitionsFrom(to, n, k - 1, name)} :
            <<to, name>> \in {tn \in Positions(n) \X TypeNames :
                                 tn[1] > from /\ tn[2] # prev}}

Partitions(n) == PartitionsFrom(0, n, MaxTypes, "none")

Scenario_A ==
    Document(CommentTree({Key(BitOffset(2, 0), BitOffset(3, 0))}),
             <<TypeRange(0, BitOffset(10, 0), "")>>, 10, <<>>)

Scenario_B ==
    Document(CommentTree({Key(BitOffset(4, 0), 0)}),
             <<TypeRange(0, BitOffset(8, 0), "w32"),
               TypeRange(BitOffset(8, 0), BitOffset(4, 0), "")>>, 12, <<>>)

\* a 4-byte word type cut by a comment in the middle of a word
Scenario_MidWord ==
    Document(CommentTree({Key(BitOffset(2, 0), 0)}),
             <<TypeRange(0, BitOffset(8, 0), "w32"),
               TypeRange(BitOffset(8, 0), BitOffset(4, 0), "")>>, 12, <<>>)

\* two 2-byte words with a comment in the middle of the second
Scenario_Words ==
    Document(CommentTree({Key(BitOffset(3, 0), 0)}),
             <<TypeRange(0, BitOffset(4, 0), "w16")>>, 4, <<>>)

Scenarios == {Scenario_A, Scenario_B, Scenario_MidWord, Scenario_Words}

\* two untyped bytes under one comment that has two children, one in each byte
Scenario_Siblings ==
    Document(CommentTree({Key(0, BitOffset(2, 0)), Key(BitOffset(0, 4), BitOffset(0, 4)),
                          Key(BitOffset(1, 4), BitOffset(0, 4))}),
             <<TypeRange(0, BitOffset(2, 0), "")>>, 2, <<>>)

CompileDocs ==
    UNION {{Document(CommentTree(ks), ts, n, <<>>) :
                <<ks, ts>> \in KeySets(n) \X Partitions(n)} : n \in BufferLengths}
    \cup Scenarios
    \cup {Scenario_Siblings}

\* the virtual offsets a call places its range at
VirtBases == {BitOffset_ZERO, BitOffset(3, 0)}

\* the calls made on a document: from a whole byte, over any length that stays
\* inside the buffer, placed at the start of the virtual space or further in
CallArgs(d) ==
    IF d \in Scenarios
    THEN {<<0, 0, BitOffset(d.buffer_length, 0)>>}
    ELSE {<<BitOffset(b, 0), v, l>> :
            <<b, v, l>> \in {a \in (0..d.buffer_length) \X VirtBases \X Positions(d.buffer_length) :
                                BitOffset(a[1], 0) + a[3] <= BitOffset(d.buffer_length, 0)}}

\* a partition without its i-th assignment
WithoutAssignment(ts, i) == SubSeq(ts, 1, i - 1) \o SubSeq(ts, i + 1, Len(ts))

\* type partitions that leave a part of the file without an assignment
BrokenPartitions(n) ==
    UNION {{WithoutAssignment(ts, i) : i \in 1..Len(ts)} : ts \in Partitions(n)}

\* at most one comment
FewComments(n) == {ks \in KeySets(n) : Cardinality(ks) <= 1}

\* type partitions with an assignment of a type whose factory misbehaves
MisbehavingPartitions(n) ==
    UNION {{[ts EXCEPT ![i].name = name] :
                <<i, name>> \in (1..Len(ts)) \X {"zero", "over"}} : ts \in Partitions(n)}

\* any two comments with data, whether or not they can both be set
PairsOfComments(n) ==
    {ks \in SUBSET {k \in CommentKeys(n) : k.length > 0} : Cardinality(ks) = 2}

\* documents in a state the program is not meant to be in: a type partition with
\* a gap, a type with a region factory that does not return what it is asked for,
\* comments that overlap (among pairs of comments that do not)
DefectDocs ==
    UNION {{Document(CommentTree(ks), ts, n, <<>>) :
                <<ks, ts>> \in FewComments(n)
                               \X (BrokenPartitions(n) \cup MisbehavingPartitions(n))} :
           n \in BufferLengths \ {0}}
    \cup UNION {{Document(CommentTree(ks), <<TypeRange(0, BitOffset(n, 0), "")>>, n, <<>>) :
                    ks \in PairsOfComments(n)} :
                n \in BufferLengths \ {0}}

----------------------------------------------------------------------------
(* SpecCompile: one call of compute_regions, stepped through its loop *)

NoTab == [inline_comment_mode |-> ICM_FULL_INDENT, document_display_mode |-> DDM_NORMAL,
          repopulate_regions_frozen |-> FALSE, repopulate_regions_pending |-> FALSE]

NoSnapshot == [compiled |-> FALSE]

\* requests, compiles: calls of repopulate_regions by the last handler, and how many
\*   of them went on to compile
\* deferred: requests recorded while frozen since the last thaw (counted to MaxDeferred)
\* thawed: the value of deferred the last handler found if it was the thaw, else -1
\* snapshot, again: what the last compile was made from, and whether the compile
\*   before it was made from the same
\* calls: the calls of compute_regions (real base, virtual base, length) made by the
\*   last run of repopulate_regions in the last handler
NoHist == [requests |-> 0, compiles |-> 0, replaces |-> 0, deferred |-> 0, thawed |-> -1,
           outstanding |-> 0, snapshot |-> NoSnapshot, again |-> FALSE, calls |-> <<>>]

InitCompile ==
    /\ doc \in CompileDocs
    /\ cr = IdleFrame
    /\ tab = NoTab
    /\ doc_ctrl = <<>>
    /\ hist = NoHist

Call ==
    /\ cr.pc = "idle"
    /\ \E a \in CallArgs(doc) : \E m \in InlineCommentModes :
          cr' = ComputeRegionsEntry(cr, doc, a[1], a[2], a[3], m)
    /\ UNCHANGED <<doc, tab, doc_ctrl, hist>>

LoopIteration ==
    /\ cr.pc = "loop"
    /\ LoopCondition(cr)
    /\ cr' = LoopBody(cr, doc)
    /\ UNCHANGED <<doc, tab, doc_ctrl, hist>>

Return ==
    /\ cr.pc = "loop"
    /\ ~LoopCondition(cr)
    /\ cr' = [cr EXCEPT !.pc = "done"]
    /\ UNCHANGED <<doc, tab, doc_ctrl, hist>>

NextCompile == Call \/ LoopIteration \/ Return

SpecCompile == InitCompile /\ [][NextCompile]_vars

\* one call of compute_regions on a document with a defect
InitDefects ==
    /\ doc \in DefectDocs
    /\ cr = IdleFrame
    /\ tab = NoTab
    /\ doc_ctrl = <<>>
    /\ hist = NoHist

SpecDefects == InitDefects /\ [][NextCompile]_vars

----------------------------------------------------------------------------
(* The Tab object: repopulate_regions, freeze and thaw, the event handlers.   *)
(* A handler is an operator from the state of the program before it to the    *)
(* state after it; w has the fields doc, cr, tab, doc_ctrl and hist.          *)

World == [doc |-> doc, cr |-> cr, tab |-> tab, doc_ctrl |-> doc_ctrl, hist |-> hist]

Becomes(w) ==
    /\ doc' = w.doc
    /\ cr' = w.cr
    /\ tab' = w.tab
    /\ doc_ctrl' = w.doc_ctrl
    /\ hist' = w.hist

Snapshot(w) ==
    [compiled |-> TRUE, doc |-> w.doc,
     inline_comment_mode |-> w.tab.inline_comment_mode,
     document_display_mode |-> w.tab.document_display_mode]

\* the document control takes the new list in place of the one it holds
replace_all_regions(held, regions) == regions

C_TEXT == "No virtual sections defined, displaying file data instead."

\* as SegmentCall, from the start of the file
SegmentCall_FromFileStart(seg) ==
    <<BitOffset_ZERO, BitOffset(seg.offset, 0), BitOffset(seg.length, 0)>>

\* the call made for a segment: real_offset_base, virt_offset_base, length
SegmentCall(seg) ==
    <<BitOffset(seg.real, 0), BitOffset(seg.offset, 0), BitOffset(seg.length, 0)>>

\* the regions of the virtual segments from the i-th on, appended to regions
RECURSIVE VirtualSegments(_, _, _, _, _, _)
VirtualSegments(frame, d, inline_comment_mode, i, regions, calls) ==
    IF i > Len(d.virt_to_real_segs)
    THEN [cr |-> frame, regions |-> regions, calls |-> calls]
    ELSE Then(SegmentCall(d.virt_to_real_segs[i]), LAMBDA a :
         Then(compute_regions(frame, d, a[1], a[2], a[3], inline_comment_mode), LAMBDA v :
             IF v.pc = "abort"
             THEN [cr |-> v, regions |-> regions, calls |-> Append(calls, a)]
             ELSE Then(regions \o v.regions, LAMBDA all :
                       VirtualSegments(v, d, inline_comment_mode, i + 1, all,
                                       Append(calls, a)))))

\* as FallbackRegions, said twice
FallbackRegions_Twice ==
    <<CommentRegion(BitOffset(-1, 0), 0, C_TEXT, FALSE, BitOffset(-1, 0), 0),
      CommentRegion(BitOffset(-1, 0), 0, C_TEXT, FALSE, BitOffset(-1, 0), 0)>>

\* what the list starts with when the virtual view has no segments to show
FallbackRegions ==
    <<CommentRegion(BitOffset(-1, 0), 0, C_TEXT, FALSE, BitOffset(-1, 0), 0)>>

\* as FileRegions, without the region of an empty file
FileRegions_NoAnchor(file_regions, d) ==
    IF file_regions = <<>>
    THEN file_regions
    ELSE IF Last(file_regions).kind # "raw"
    THEN Append(file_regions,
                DataRegionDocHighlight(BitOffset(d.buffer_length, 0), 0,
                                       BitOffset(d.buffer_length, 0)))
    ELSE file_regions

\* as FileRegions, with the region at the end after a comment only
FileRegions_AfterCommentOnly(file_regions, d) ==
    IF file_regions = <<>>
    THEN <<DataRegionDocHighlight(0, 0, 0)>>
    ELSE IF Last(file_regions).kind = "comment"
    THEN Append(file_regions,
                DataRegionDocHighlight(BitOffset(d.buffer_length, 0), 0,
                                       BitOffset(d.buffer_length, 0)))
    ELSE file_regions

\* the regions of the file view: the compile over the whole file, and a data
\* region of the plain kind at the end when the compile did not end with one
FileRegions(file_regions, d) ==
    IF file_regions = <<>>
    THEN <<DataRegionDocHighlight(0, 0, 0)>>
    ELSE IF Last(file_regions).kind # "raw"
    THEN Append(file_regions,
                DataRegionDocHighlight(BitOffset(d.buffer_length, 0), 0,
                                       BitOffset(d.buffer_length, 0)))
    ELSE file_regions

FileView(w, regions) ==
    Then(compute_regions(w.cr, w.doc, 0, 0, BitOffset(w.doc.buffer_length, 0),
                         w.tab.inline_comment_mode), LAMBDA f :
    Then([w EXCEPT !.hist.calls =
                       Append(@, <<0, 0, BitOffset(w.doc.buffer_length, 0)>>)], LAMBDA called :
        IF f.pc = "abort"
        THEN [called EXCEPT !.cr = f]
        ELSE IF f.regions = <<>> /\ ~(w.doc.buffer_length = 0)
        THEN [called EXCEPT !.cr = Aborted(f, "doc->buffer_length() == 0")]
        ELSE [called EXCEPT !.cr = f,
                            !.hist.replaces = @ + 1,
                            !.doc_ctrl = replace_all_regions(@,
                                            regions \o FileRegions(f.regions, w.doc))]))

VirtualView(w) ==
    Then(VirtualSegments(w.cr, w.doc, w.tab.inline_comment_mode, 1, <<>>, <<>>), LAMBDA v :
        IF v.cr.pc = "abort"
        THEN [w EXCEPT !.cr = v.cr, !.hist.calls = v.calls]
        ELSE [w EXCEPT !.cr = v.cr, !.hist.calls = v.calls,
                       !.hist.replaces = @ + 1,
                       !.doc_ctrl = replace_all_regions(@, v.regions)])

repopulate_regions(w) ==
    IF w.tab.repopulate_regions_frozen
    THEN [w EXCEPT !.tab.repopulate_regions_pending = TRUE,
                   !.hist.requests = @ + 1,
                   !.hist.deferred = Min(@ + 1, MaxDeferred)]
    ELSE Then([w EXCEPT !.hist.requests = @ + 1,
                        !.hist.compiles = @ + 1,
                        !.hist.snapshot = Snapshot(w),
                        !.hist.again = (w.hist.snapshot = Snapshot(w)),
                        !.hist.calls = <<>>], LAMBDA c :
             IF c.tab.document_display_mode = DDM_VIRTUAL
             THEN IF c.doc.virt_to_real_segs = <<>>
                  THEN FileView(c, FallbackRegions)
                  ELSE VirtualView(c)
             ELSE FileView(c, <<>>))

repopulate_regions_freeze(w) ==
    [w EXCEPT !.tab.repopulate_regions_frozen = TRUE]

\* as repopulate_regions_thaw, leaving the pending flag set
repopulate_regions_thaw_KeepsPending(w) ==
    LET t == [w EXCEPT !.tab.repopulate_regions_frozen = FALSE]
    IN  IF t.tab.repopulate_regions_pending
        THEN repopulate_regions(t)
        ELSE t

repopulate_regions_thaw(w) ==
    LET t == [w EXCEPT !.tab.repopulate_regions_frozen = FALSE]
    IN  IF t.tab.repopulate_regions_pending
        THEN Then(repopulate_regions(t), LAMBDA r :
                 IF r.cr.pc = "abort"
                 THEN r
                 ELSE [r EXCEPT !.tab.repopulate_regions_pending = FALSE])
        ELSE t

set_inline_comment_mode(w, inline_comment_mode) ==
    repopulate_regions([w EXCEPT !.tab.inline_comment_mode = inline_comment_mode])

set_document_display_mode(w, document_display_mode) ==
    repopulate_regions([w EXCEPT !.tab.document_display_mode = document_display_mode])

OnDocumentDataErase(w) == repopulate_regions(w)

OnDocumentDataInsert(w) == repopulate_regions(w)

OnDocumentDataOverwrite(w) == w

\* as OnDocumentCommentModified, leaving the list as it is
OnDocumentCommentModified_Ignored(w) == w

OnDocumentCommentModified(w) == repopulate_regions(w)

OnDocumentDataTypesChanged(w) == repopulate_regions(w)

\* as OnDocumentMappingsChanged, in any display mode
OnDocumentMappingsChanged_Always(w) == repopulate_regions(w)

OnDocumentMappingsChanged(w) ==
    IF w.tab.document_display_mode = DDM_VIRTUAL
    THEN repopulate_regions(w)
    ELSE w

OnBulkUpdatesFrozen(w) == repopulate_regions_freeze(w)

OnBulkUpdatesThawed(w) == repopulate_regions_thaw(w)

\* as TabMembers, with the pending flag set from the start
TabMembers_PendingSet ==
    [inline_comment_mode |-> ICM_FULL_INDENT,
     document_display_mode |-> DDM_NORMAL,
     repopulate_regions_frozen |-> FALSE,
     repopulate_regions_pending |-> TRUE]

\* the members as the initialiser list of the constructor leaves them
TabMembers ==
    [inline_comment_mode |-> ICM_FULL_INDENT,
     document_display_mode |-> DDM_NORMAL,
     repopulate_regions_frozen |-> FALSE,
     repopulate_regions_pending |-> FALSE]

\* the constructor: the members, the first repopulate_regions, and the one of
\* init_default_doc_view with the inline comment mode of the configuration
Tab(document, configured_mode) ==
    LET members == [doc |-> document, cr |-> IdleFrame,
                    tab |-> TabMembers,
                    doc_ctrl |-> <<>>,
                    hist |-> NoHist]
    IN  Then(repopulate_regions(members), LAMBDA first :
            IF first.cr.pc = "abort" \/ configured_mode \notin InlineCommentModes
            THEN first
            ELSE repopulate_regions([first EXCEPT !.tab.inline_comment_mode = configured_mode]))

----------------------------------------------------------------------------
(* Spec: the Tab over a small family of documents *)

Scenario_D ==
    Document(<<>>, <<TypeRange(0, BitOffset(205, 0), "")>>, 205,
             <<Segment(0, 5, 100), Segment(5, 5, 200)>>)

Untyped(n) == <<TypeRange(0, BitOffset(n, 0), "")>>

Swapped == <<Segment(0, 1, 1), Segment(1, 1, 0)>>

TabDocs ==
    { \* an empty file
      Document(<<>>, <<>>, 0, <<>>),
      \* two bytes: plain, with a comment over the file, and both through two
      \* swapped virtual segments
      Document(<<>>, Untyped(2), 2, <<>>),
      Document(CommentTree({Key(0, BitOffset(2, 0))}), Untyped(2), 2, <<>>),
      Document(<<>>, Untyped(2), 2, Swapped),
      Document(CommentTree({Key(0, BitOffset(2, 0))}), Untyped(2), 2, Swapped),
      \* two bytes through the swapped segments, with a comment that starts in the
      \* first byte and ends in the second
      Document(CommentTree({Key(BitOffset(0, 4), BitOffset(1, 0))}), Untyped(2), 2, Swapped),
      \* two bytes that end with a typed byte, or with a comment inside the last byte
      Document(<<>>, <<TypeRange(0, BitOffset(1, 0), ""),
                       TypeRange(BitOffset(1, 0), BitOffset(1, 0), "f8")>>, 2, <<>>),
      Document(CommentTree({Key(BitOffset(1, 4), 0)}), Untyped(2), 2, <<>>),
      \* one 2-byte word with a comment in the middle of the word
      Document(CommentTree({Key(BitOffset(1, 0), 0)}),
               <<TypeRange(0, BitOffset(2, 0), "w16")>>, 2, <<>>),
      Scenario_D }

ConfiguredModes == InlineCommentModes \cup {"out of range"}

Init ==
    \E document \in TabDocs : \E configured_mode \in ConfiguredModes :
        \E w \in {Tab(document, configured_mode)} :
            /\ doc = w.doc
            /\ cr = w.cr
            /\ tab = w.tab
            /\ doc_ctrl = w.doc_ctrl
            /\ hist = w.hist

\* the process runs until an assertion fails
Alive == cr.pc # "abort"

\* a handler starts: nothing requested and nothing compiled by it yet
Begin ==
    [World EXCEPT !.hist.requests = 0, !.hist.compiles = 0, !.hist.replaces = 0,
                  !.hist.thawed = -1, !.hist.calls = <<>>]

\* a handler starts on a notification of the document, which has changed to document
BeginWith(document) == [Begin EXCEPT !.doc = document]

SetInlineCommentMode ==
    /\ Alive
    /\ \E m \in InlineCommentModes :
          \E w \in {set_inline_comment_mode(Begin, m)} : Becomes(w)

SetDocumentDisplayMode ==
    /\ Alive
    /\ \E m \in DocumentDisplayModes :
          \E w \in {set_document_display_mode(Begin, m)} : Becomes(w)

DataErase ==
    /\ Alive
    /\ \E e \in TabDocs :
          /\ e.buffer_length < doc.buffer_length
          /\ \E w \in {OnDocumentDataErase(BeginWith(e))} : Becomes(w)

DataInsert ==
    /\ Alive
    /\ \E e \in TabDocs :
          /\ e.buffer_length > doc.buffer_length
          /\ \E w \in {OnDocumentDataInsert(BeginWith(e))} : Becomes(w)

DataOverwrite ==
    /\ Alive
    /\ \E w \in {OnDocumentDataOverwrite(Begin)} : Becomes(w)

CommentModified ==
    /\ Alive
    /\ \E e \in TabDocs :
          /\ e.comments # doc.comments
          /\ e = [doc EXCEPT !.comments = e.comments]
          /\ \E w \in {OnDocumentCommentModified(BeginWith(e))} : Becomes(w)

DataTypesChanged ==
    /\ Alive
    /\ \E e \in TabDocs :
          /\ e.types # doc.types
          /\ e = [doc EXCEPT !.types = e.types]
          /\ \E w \in {OnDocumentDataTypesChanged(BeginWith(e))} : Becomes(w)

MappingsChanged ==
    /\ Alive
    /\ \E e \in TabDocs :
          /\ e.virt_to_real_segs # doc.virt_to_real_segs
          /\ e = [doc EXCEPT !.virt_to_real_segs = e.virt_to_real_segs]
          /\ \E w \in {OnDocumentMappingsChanged(BeginWith(e))} : Becomes(w)

\* hist.outstanding counts the freezes that no thaw has answered yet
BulkUpdatesFrozen ==
    /\ Alive
    /\ hist.outstanding < MaxFreezes
    /\ \E w \in {OnBulkUpdatesFrozen(Begin)} :
          Becomes([w EXCEPT !.hist.outstanding = @ + 1])

BulkUpdatesThawed ==
    /\ Alive
    /\ \E w \in {OnBulkUpdatesThawed(Begin)} :
          Becomes([w EXCEPT !.hist.deferred = 0, !.hist.thawed = hist.deferred,
                            !.hist.outstanding = IF @ > 0 THEN @ - 1 ELSE 0])

Next ==
    \/ SetInlineCommentMode
    \/ SetDocumentDisplayMode
    \/ DataErase
    \/ DataInsert
    \/ DataOverwrite
    \/ CommentModified
    \/ DataTypesChanged
    \/ MappingsChanged
    \/ BulkUpdatesFrozen
    \/ BulkUpdatesThawed

Spec == Init /\ [][Next]_vars

----------------------------------------------------------------------------
(* Properties of one call of compute_regions (SpecCompile) *)

RECURSIVE SumLengths(_)
SumLengths(rs) == IF rs = <<>> THEN 0 ELSE rs[1].length + SumLengths(Tail(rs))

DataRegions(rs) == SelectSeq(rs, IsData)

\* the data regions of rs, in order, cover [base, base + length) without gap or overlap
Tiles(rs, base, length) ==
    LET ds == DataRegions(rs)
    IN  /\ length > 0 => (ds # <<>> /\ ds[1].offset = base)
        /\ \A i \in 1..(Len(ds) - 1) : ds[i + 1].offset = ds[i].offset + ds[i].length
        /\ SumLengths(ds) = length

WholeFileCall ==
    cr.real_offset_base = 0 /\ cr.length = BitOffset(doc.buffer_length, 0)

\* every type assignment is a whole number of words of its type
WholeWords(d) ==
    \A i \in 1..Len(d.types) :
        BitOffset_mod(d.types[i].length,
                      DataTypeRegistry_get_type(d.types[i].name).word_size) = 0

Markers(rs) == {i \in 1..Len(rs) : rs[i].kind = "comment"}

DataAt(rs) == {i \in 1..Len(rs) : IsData(rs[i])}

RegionEnd(r) == r.offset + r.length

\* C1: for every well-formed comment tree, total type partition, registered type
\* and inline comment mode, a compile over [0, L) completes, and its data regions
\* (typed, raw, bit remainder) in emission order tile [0, L): the first starts at
\* 0, each next one starts where the previous one ended, their lengths sum to L.
\* (Checked on the documents whose assignments are whole numbers of words.)
C1_CompileTilesDomain ==
    (WholeFileCall /\ WholeWords(doc)) =>
        /\ cr.pc # "abort"
        /\ cr.pc = "done" => Tiles(cr.regions, 0, BitOffset(doc.buffer_length, 0))

\* the data regions that start inside the comment of marker i
InsideOf(rs, i) ==
    {j \in DataAt(rs) : rs[i].offset <= rs[j].offset /\ rs[j].offset < RegionEnd(rs[i])}

\* C3: in a nesting mode, for every emitted comment (O, Len > 0) the data regions
\* whose offset lies in [O, O + Len) come after its marker, the first data region
\* after the marker starts at O, up to the last of them only markers of comments
\* inside it and those data regions occur, none of them extends past O + Len, and
\* none extends past the end of an enclosing comment emitted before.
C3_NestingWellFormed ==
    (nest(cr.inline_comment_mode) /\ cr.pc \in {"loop", "done"}) =>
        \A i \in Markers(cr.regions) :
            cr.regions[i].length > 0 =>
                \A j \in InsideOf(cr.regions, i) :
                    /\ j > i
                    /\ RegionEnd(cr.regions[j]) <= RegionEnd(cr.regions[i])
                    /\ \A k \in (i + 1)..j :
                          IF IsData(cr.regions[k])
                          THEN /\ k \in InsideOf(cr.regions, i)
                               /\ (\A n \in (i + 1)..(k - 1) : ~IsData(cr.regions[n]))
                                     => cr.regions[k].offset = cr.regions[i].offset
                          ELSE /\ cr.regions[i].offset <= cr.regions[k].offset
                               /\ cr.regions[k].offset < RegionEnd(cr.regions[i])
                    /\ \A e \in Markers(cr.regions) :
                          (e < i /\ cr.regions[e].length > 0
                             /\ cr.regions[e].offset <= cr.regions[i].offset
                             /\ cr.regions[i].offset < RegionEnd(cr.regions[e]))
                          => RegionEnd(cr.regions[j]) <= RegionEnd(cr.regions[e])

\* a finished compile in a nesting mode with a comment nested in another one, data
\* inside the inner one, and data after the end of the outer one
C3_Witness ==
    /\ cr.pc = "done"
    /\ nest(cr.inline_comment_mode)
    /\ \E e \in Markers(cr.regions) : \E i \in Markers(cr.regions) :
          /\ e < i
          /\ cr.regions[i].length > 0
          /\ RegionEnd(cr.regions[i]) < RegionEnd(cr.regions[e])
          /\ InsideOf(cr.regions, i) # {}
          /\ \E k \in DataAt(cr.regions) : cr.regions[k].offset >= RegionEnd(cr.regions[e])

\* C4: in every mode the marker of a zero-length comment has an indent sub-range
\* of length zero, and a zero-length comment pushes no close boundary: at every
\* point of a call (where an assertion stops it, too) every boundary on the
\* nesting stack is the end of an emitted comment of length > 0, and the stack is
\* no deeper than the number of those comments.
C4_ZeroLengthCommentNeverIndents ==
        /\ \A i \in Markers(cr.regions) :
              cr.regions[i].length = 0 => cr.regions[i].indent_length = 0
        /\ \A k \in 1..Len(cr.dr_limit) :
              \E i \in Markers(cr.regions) :
                  cr.regions[i].length > 0 /\ RegionEnd(cr.regions[i]) = cr.dr_limit[k]
        /\ Len(cr.dr_limit)
              <= Cardinality({i \in Markers(cr.regions) : cr.regions[i].length > 0})

\* a finished compile in a nesting mode that emitted a zero-length comment inside a
\* comment that has data
C4_Witness ==
    /\ cr.pc = "done"
    /\ nest(cr.inline_comment_mode)
    /\ \E i \in Markers(cr.regions) : \E z \in Markers(cr.regions) :
          /\ i < z
          /\ cr.regions[i].length > 0
          /\ cr.regions[z].length = 0
          /\ cr.regions[z].offset < RegionEnd(cr.regions[i])

\* C7 as stated: scenario A (10 untyped bytes, comment "A" at 2 of length 3, mode
\* Full-Indent) compiles to Raw[0,2), the marker of "A" with the indent sub-range
\* [2,3), Raw[2,5), Raw[5,10).
C7_ScenarioA_AsStated ==
    (doc = Scenario_A /\ cr.pc = "done" /\ cr.inline_comment_mode = ICM_FULL_INDENT) =>
        cr.regions =
            <<DataRegionDocHighlight(0, BitOffset(2, 0), 0),
              CommentRegion(BitOffset(2, 0), BitOffset(3, 0), "A", FALSE,
                            BitOffset(2, 0), BitOffset(3, 0) - BitOffset(2, 0)),
              DataRegionDocHighlight(BitOffset(2, 0), BitOffset(3, 0), BitOffset(2, 0)),
              DataRegionDocHighlight(BitOffset(5, 0), BitOffset(5, 0), BitOffset(5, 0))>>

\* C7 as amended: scenario A compiles to Raw[0,2), the marker of "A" with the
\* indent sub-range [2,5) (offset 2, length 3), Raw[2,5), Raw[5,10).
C7_ScenarioA ==
    (doc = Scenario_A /\ cr.pc = "done" /\ cr.inline_comment_mode = ICM_FULL_INDENT) =>
        cr.regions =
            <<DataRegionDocHighlight(0, BitOffset(2, 0), 0),
              CommentRegion(BitOffset(2, 0), BitOffset(3, 0), "A", FALSE,
                            BitOffset(2, 0), BitOffset(3, 0)),
              DataRegionDocHighlight(BitOffset(2, 0), BitOffset(3, 0), BitOffset(2, 0)),
              DataRegionDocHighlight(BitOffset(5, 0), BitOffset(5, 0), BitOffset(5, 0))>>

C7_Witness ==
    doc = Scenario_A /\ cr.pc = "done" /\ cr.inline_comment_mode = ICM_FULL_INDENT

\* C8: scenario B (a 4-byte word type with a factory and no fixed size over [0,8),
\* untyped [8,12), a zero-length comment at 4, any mode but Hidden) compiles to
\* Typed[0,4), the marker (offset 4, length 0, indent length 0), Typed[4,8),
\* Raw[8,12), and nothing else.
C8_ScenarioB ==
    (doc = Scenario_B /\ cr.pc = "done" /\ cr.inline_comment_mode # ICM_HIDDEN) =>
        cr.regions =
            <<region_factory(DataTypeRegistry_get_type("w32"), 0, BitOffset(4, 0), 0),
              CommentRegion(BitOffset(4, 0), 0, "A", truncate(cr.inline_comment_mode),
                            BitOffset(4, 0), 0),
              region_factory(DataTypeRegistry_get_type("w32"), BitOffset(4, 0), BitOffset(4, 0),
                             BitOffset(4, 0)),
              DataRegionDocHighlight(BitOffset(8, 0), BitOffset(4, 0), BitOffset(8, 0))>>

C8_Witness ==
    doc = Scenario_B /\ cr.pc = "done" /\ cr.inline_comment_mode = ICM_SHORT_INDENT

----------------------------------------------------------------------------
(* Properties of the Tab (Spec) *)

\* the list the document control holds came from a compile that ran to its end
Compiled == hist.snapshot.compiled /\ cr.pc = "done"

CompiledLength == BitOffset(hist.snapshot.doc.buffer_length, 0)

\* that compile was the one over the whole file (cr is its frame)
FileViewCompiled ==
    /\ Compiled
    /\ \/ hist.snapshot.document_display_mode = DDM_NORMAL
       \/ hist.snapshot.doc.virt_to_real_segs = <<>>

NoSegmentsMarker ==
    CommentRegion(BitOffset(-1, 0), 0, C_TEXT, FALSE, BitOffset(-1, 0), 0)

\* what precedes the file's regions in the list
Preamble ==
    IF hist.snapshot.document_display_mode = DDM_VIRTUAL
    THEN <<NoSegmentsMarker>>
    ELSE <<>>

EndAnchor == DataRegionDocHighlight(CompiledLength, 0, CompiledLength)

\* the list is the compile's output with the zero-length raw block at the end
Appended == doc_ctrl = Preamble \o cr.regions \o <<EndAnchor>>

C5_EmptyFile_AsStated ==
    (Compiled /\ CompiledLength = 0) => doc_ctrl = <<DataRegionDocHighlight(0, 0, 0)>>

\* C5 as amended: when the file is empty the list handed over is the raw block of
\* length 0 at offset 0, alone in the normal display mode and after the marker
\* that says there are no virtual sections in the virtual display mode.
C5_EmptyFile ==
    (Compiled /\ CompiledLength = 0) =>
        doc_ctrl = Preamble \o <<DataRegionDocHighlight(0, 0, 0)>>

C5_Witness ==
    /\ Compiled /\ CompiledLength = 0
    /\ hist.snapshot.document_display_mode = DDM_VIRTUAL
    /\ Len(doc_ctrl) = 2

C9_FreezeThawCoalesces ==
    /\ tab.repopulate_regions_frozen =>
          /\ hist.compiles = 0
          /\ tab.repopulate_regions_pending <=> hist.deferred >= 1
    /\ hist.thawed >= 0 =>
          /\ hist.compiles = (IF hist.thawed >= 1 THEN 1 ELSE 0)
          /\ hist.compiles = 1 => hist.snapshot = Snapshot(World)

\* a thaw that found two or more requests recorded and compiled once
C9_Witness ==
    hist.thawed >= 2 /\ hist.compiles = 1 /\ hist.requests = 1 /\ cr.pc = "done"

CommentsChanged == doc'.comments # doc.comments

TypesChanged == doc'.types # doc.types

ModesChanged ==
    \/ tab'.inline_comment_mode # tab.inline_comment_mode
    \/ tab'.document_display_mode # tab.document_display_mode

MappingChanged == doc'.virt_to_real_segs # doc.virt_to_real_segs

\* C10 as stated: every change of the comments, the type assignments, the inline
\* comment mode, the display mode or the virtual mapping leads to a call of
\* repopulate_regions.
C10_EveryChangeRequests_AsStated ==
    [][(CommentsChanged \/ TypesChanged \/ ModesChanged \/ MappingChanged)
          => hist'.requests >= 1]_vars

\* C10 as amended: every change of the comments, the type assignments, the inline
\* comment mode or the display mode leads to one call of repopulate_regions; a
\* change of the virtual mapping alone does so in the virtual display mode and
\* leads to no call in the normal one; the call compiles at once when the tab is
\* not frozen and is recorded as pending when it is.
C10_EveryChangeRequests ==
    [][/\ (CommentsChanged \/ TypesChanged \/ ModesChanged) => hist'.requests = 1
       /\ (MappingChanged /\ ~CommentsChanged /\ ~TypesChanged /\ ~ModesChanged
             /\ doc'.buffer_length = doc.buffer_length)
            => hist'.requests = (IF tab.document_display_mode = DDM_VIRTUAL THEN 1 ELSE 0)
       /\ ((CommentsChanged \/ TypesChanged \/ ModesChanged \/ MappingChanged)
             /\ hist'.requests = 1)
            => IF tab.repopulate_regions_frozen
               THEN tab'.repopulate_regions_pending /\ hist'.compiles = 0
               ELSE hist'.compiles = 1]_vars

\* the mapping changed in the normal display mode and nothing was requested: the
\* list held is still the one compiled before the change
C10_Witness ==
    /\ ~tab.repopulate_regions_frozen
    /\ tab.document_display_mode = DDM_NORMAL
    /\ hist.requests = 0 /\ hist.thawed = -1
    /\ Compiled
    /\ hist.snapshot.doc.virt_to_real_segs # doc.virt_to_real_segs
    /\ hist.snapshot.doc.comments = doc.comments

----------------------------------------------------------------------------
(* The comment walker *)

\* the first comment in pre-order that starts at or after start, NULL if none
FirstAtOrAfter(comments, start) ==
    LET ahead == {i \in 1..Len(comments) : comments[i].offset >= start}
    IN  IF ahead = {} THEN NULL ELSE CHOOSE i \in ahead : \A j \in ahead : i <= j

\* compute_regions has run up to its loop
Entered == cr.pc = "loop" /\ cr.regions = <<>> /\ cr.next_data = cr.real_offset_base

\* C11: in a mode that shows comments, the skip loop at the entry of a compile
\* leaves the comment cursor on the first comment in pre-order whose offset is
\* >= the start position, or on none if there is no such comment.
C11_SkipLeavesFirstAtOrAfter ==
    (Entered /\ cr.inline_comment_mode # ICM_HIDDEN) =>
        cr.next_comment = FirstAtOrAfter(doc.comments, cr.real_offset_base)

----------------------------------------------------------------------------
(* The views of repopulate_regions *)

\* the last handler ran repopulate_regions to its compile
Repopulated == hist.compiles > 0

FileViewTaken ==
    tab.document_display_mode = DDM_NORMAL \/ doc.virt_to_real_segs = <<>>

\* the regions of the list that stand for no data of the document
Synthetic(rs) == {i \in Markers(rs) : rs[i].offset < 0}

\* C12: when the display mode is not virtual or there are no segments, the compiler
\* is called exactly once, over [0, buffer_length) with real base and virtual base
\* 0; when the mode is virtual and there are no segments the list that is
\* published is the compile's output after exactly one synthetic marker, of length
\* zero and with an empty indent sub-range; in the normal mode no synthetic marker
\* is in the list.
C12_FileViewCompilesOnce ==
    (Repopulated /\ FileViewTaken) =>
        /\ hist.calls = << <<0, 0, BitOffset(doc.buffer_length, 0)>> >>
        /\ cr.real_offset_base = 0 /\ cr.virt_offset_base = 0
        /\ cr.length = BitOffset(doc.buffer_length, 0)
        /\ cr.pc = "done" =>
              IF tab.document_display_mode = DDM_VIRTUAL
              THEN /\ Synthetic(doc_ctrl) = {1}
                   /\ doc_ctrl[1].length = 0 /\ doc_ctrl[1].indent_length = 0
                   /\ Tail(doc_ctrl) = FileRegions(cr.regions, doc)
              ELSE /\ Synthetic(doc_ctrl) = {}
                   /\ doc_ctrl = FileRegions(cr.regions, doc)

\* the fallback of the virtual view has been published over a file with a comment
C12_Witness ==
    /\ Repopulated /\ FileViewTaken /\ cr.pc = "done"
    /\ tab.document_display_mode = DDM_VIRTUAL
    /\ Cardinality(Markers(doc_ctrl)) = 2

\* the segments of the document the list was compiled from
Segs == doc.virt_to_real_segs

\* a compile of the i-th segment on its own, from nothing held before it
SegmentAlone(i) ==
    compute_regions(IdleFrame, doc, BitOffset(Segs[i].real, 0), BitOffset(Segs[i].offset, 0),
                    BitOffset(Segs[i].length, 0), tab.inline_comment_mode)

RECURSIVE SegmentsAlone(_)
SegmentsAlone(i) ==
    IF i > Len(Segs) THEN <<>> ELSE SegmentAlone(i).regions \o SegmentsAlone(i + 1)

\* the positions at which the comments that start at or after base, the type
\* assignments and the end of the compiled range cut the data
CutsFrom(base, length) ==
    {doc.comments[k].offset : k \in {j \in 1..Len(doc.comments) : doc.comments[j].offset >= base}}
    \cup {doc.comments[k].offset + doc.comments[k].length :
             k \in {j \in 1..Len(doc.comments) : doc.comments[j].offset >= base}}
    \cup {doc.types[k].offset + doc.types[k].length : k \in 1..Len(doc.types)}
    \cup {base + length}

\* C13: with segments, in the virtual display mode, the list that is published is
\* the concatenation in the segments' order of one compile per segment, called with
\* the segment's real base, virtual offset and length; each is the compile the
\* segment gets on its own (nothing of the compile before it is left), no marker
\* of a comment that starts before the segment's real base is in its output and
\* no block of it ends where only such a comment ends. For the segments virtual
\* [0,5) -> real 100 and virtual [5,10) -> real 200 without comments or types the
\* list is two raw blocks: real 100..105 at virtual 0, real 200..205 at virtual 5.
C13_VirtualViewConcatenates ==
    (Repopulated /\ ~FileViewTaken /\ cr.pc = "done") =>
        /\ hist.calls = [i \in 1..Len(Segs) |->
                            <<BitOffset(Segs[i].real, 0), BitOffset(Segs[i].offset, 0),
                              BitOffset(Segs[i].length, 0)>>]
        /\ doc_ctrl = SegmentsAlone(1)
        /\ \A i \in 1..Len(Segs) : \A k \in 1..Len(SegmentAlone(i).regions) :
              LET r == SegmentAlone(i).regions[k]
              IN  /\ r.kind = "comment" => r.offset >= BitOffset(Segs[i].real, 0)
                  /\ IsData(r) => RegionEnd(r) \in CutsFrom(BitOffset(Segs[i].real, 0),
                                                            BitOffset(Segs[i].length, 0))
        /\ doc = Scenario_D =>
              doc_ctrl = <<DataRegionDocHighlight(BitOffset(100, 0), BitOffset(5, 0), 0),
                           DataRegionDocHighlight(BitOffset(200, 0), BitOffset(5, 0),
                                                  BitOffset(5, 0))>>

\* the two segments have been published, the first of them lying inside a comment
\* that starts before it and ends in it
C13_Witness ==
    /\ Repopulated /\ ~FileViewTaken /\ cr.pc = "done"
    /\ tab.inline_comment_mode = ICM_FULL_INDENT
    /\ Len(Segs) = 2
    /\ \E k \in 1..Len(doc.comments) :
          /\ doc.comments[k].offset < BitOffset(Segs[1].real, 0)
          /\ doc.comments[k].offset + doc.comments[k].length > BitOffset(Segs[1].real, 0)
          /\ doc.comments[k].offset + doc.comments[k].length
                < BitOffset(Segs[1].real + Segs[1].length, 0)

----------------------------------------------------------------------------
(* The hidden mode *)

\* the document without its comments
Uncommented == [doc EXCEPT !.comments = <<>>]

\* the call that is running or has ended, made on the document without comments
WithoutComments ==
    compute_regions(IdleFrame, Uncommented, cr.real_offset_base, cr.virt_offset_base,
                    cr.length, cr.inline_comment_mode)

\* C14: in the Hidden mode a compile emits no comment marker, consults no comment
\* and opens no nesting level, and what it returns (or the assertion that stops
\* it) is what the same call returns for the document without comments: no block
\* is split at the offset or at the end of a comment.
C14_HiddenIgnoresComments ==
    (cr.pc # "idle" /\ cr.inline_comment_mode = ICM_HIDDEN) =>
        /\ Markers(cr.regions) = {}
        /\ cr.next_comment = NULL
        /\ cr.dr_limit = <<>>
        /\ cr.pc \in {"done", "abort"} =>
              /\ cr.regions = WithoutComments.regions
              /\ cr.pc = WithoutComments.pc

\* a compile in the Hidden mode has returned one block over a comment with data
C14_Witness ==
    /\ cr.pc = "done" /\ cr.inline_comment_mode = ICM_HIDDEN
    /\ Len(cr.regions) = 1
    /\ \E k \in 1..Len(doc.comments) :
          /\ doc.comments[k].length > 0
          /\ doc.comments[k].offset > cr.regions[1].offset
          /\ doc.comments[k].offset + doc.comments[k].length < RegionEnd(cr.regions[1])

----------------------------------------------------------------------------
(* Defects of the type partition *)

\* some type assignment of the document covers position p
Covered(p) ==
    \E k \in 1..Len(doc.types) :
        doc.types[k].offset <= p /\ p < doc.types[k].offset + doc.types[k].length

\* every position of a data region of rs is covered
AllCovered(rs) ==
    \A i \in DataAt(rs) :
        \A p \in Grid : (rs[i].offset <= p /\ p < RegionEnd(rs[i])) => Covered(p)

\* the type partition leaves a position of the file without an assignment
Broken == \E p \in Grid : p < BitOffset(doc.buffer_length, 0) /\ ~Covered(p)

\* C15: on a document with a broken type partition, a step of the loop taken with
\* data remaining at a position no type assignment covers stops the compile by an
\* assertion, with no data region added; no data region is ever emitted over a
\* position without assignment, and a compile that returns has met no such
\* position in its range.
C15_GapStopsCompile ==
    [][Broken =>
        /\ (cr.pc = "loop" /\ cr.remain_data > 0 /\ ~Covered(cr.next_data)) =>
             /\ cr'.pc = "abort"
             /\ DataRegions(cr'.regions) = DataRegions(cr.regions)
        /\ AllCovered(cr'.regions)
        /\ cr'.pc = "done" =>
             \A p \in Grid :
                 (cr'.real_offset_base <= p /\ p < cr'.real_offset_base + cr'.length)
                     => Covered(p)]_vars

\* a compile has emitted a block and then stopped where the assignments end
\* before the range does
C15_Witness ==
    /\ cr.pc = "abort"
    /\ cr.regions # <<>>
    /\ cr.remain_data > 0
    /\ ~Covered(cr.next_data)
    /\ cr.assertion = "types_iter != types.end()"

----------------------------------------------------------------------------
(* Defects of a region factory *)

\* the length the compile asked the factory for when it made the i-th region of
\* rs: what the compile advanced by, up to the next data region or to next_data
Asked(rs, i) ==
    LET later == {j \in DataAt(rs) : j > i}
    IN  IF later = {}
        THEN cr.next_data - rs[i].offset
        ELSE rs[CHOOSE j \in later : \A k \in later : j <= k].offset - rs[i].offset

\* the typed regions of rs whose length is zero or more than was asked for
Misbehaved(rs) ==
    {i \in DataAt(rs) :
        rs[i].kind = "typed" /\ (rs[i].length = 0 \/ rs[i].length > Asked(rs, i))}

\* C16: when a region factory has returned a region of length zero or longer than
\* the length it was asked for, the compile is stopped by an assertion: it neither
\* goes on nor returns a list with that region in it.
C16_BadFactoryStopsCompile ==
    Misbehaved(cr.regions) # {} => cr.pc = "abort"

----------------------------------------------------------------------------
(* The length of a typed region *)

\* the step of the loop that is about to be taken
Stepping == cr.pc = "loop" /\ cr.remain_data > 0

\* the frame of that step once its comments are emitted
AtData == EmitComments([cr EXCEPT !.dr_limit = PopLimits(@, cr.next_data)], doc)

\* the length of that step's data once clamped to the next comment, the open
\* comment and the type assignment
Clamped ==
    ClampToType(AtData, doc, ClampToLimit(AtData, ClampToComment(AtData, doc,
                                                                AtData.remain_data)))

\* the type of the assignment at the cursor of that step
TypeAtData == DataTypeRegistry_get_type(doc.types[AtData.types_iter].name)

\* the clamped length is less than a word of a type that has a factory
ShortOfAWord ==
    /\ Stepping
    /\ TypeAtData.region_factory
    /\ Clamped > 0
    /\ Clamped - BitOffset_mod(Clamped, TypeAtData.word_size) = 0

\* C17: when the type at the cursor has a region factory and the clamped length
\* rounded down to whole words is zero, the step emits no typed region: it emits a
\* bit-remainder region (less than a byte) or a raw region of whole bytes at
\* next_data, and the compile goes on. (Checked on the compiles of a whole file
\* whose assignments are whole numbers of words.)
C17_ShortSpanFallsBackToRaw ==
    [][(WholeFileCall /\ WholeWords(doc) /\ ShortOfAWord) =>
        /\ cr'.pc \in {"loop", "done"}
        /\ Len(cr'.regions) > Len(cr.regions)
        /\ Last(cr'.regions).kind = (IF Clamped < BitOffset(1, 0) THEN "bits" ELSE "raw")
        /\ Last(cr'.regions).offset = cr.next_data]_vars

----------------------------------------------------------------------------
(* The push on the nesting stack *)

\* marker i of rs opened a nesting level that marker j, emitted after it and
\* inside it, ends beyond
EndsBeyond(rs, i, j) ==
    /\ i < j
    /\ rs[i].length > 0 /\ rs[j].length > 0
    /\ rs[i].offset <= rs[j].offset
    /\ rs[j].offset < RegionEnd(rs[i])
    /\ RegionEnd(rs[i]) < RegionEnd(rs[j])

\* the compile was stopped at a push
StoppedAtPush == cr.pc = "abort" /\ cr.assertion = "dr_limit.top() >= comment end"

\* C18 as stated: in a nesting mode a boundary pushed on a stack that is not empty
\* is >= the boundary on top of it: the stack never decreases from bottom to top.
C18_PushRule_AsStated ==
    \A k \in 2..Len(cr.dr_limit) : cr.dr_limit[k] >= cr.dr_limit[k - 1]

\* C18 as amended: in a nesting mode a boundary pushed on a stack that is not empty
\* is <= the boundary on top of it (the stack never increases from bottom to
\* top), and the compile is stopped by an assertion, before the push, exactly when
\* the comment just emitted has data and ends beyond a comment that is open.
C18_PushRule ==
    /\ \A k \in 2..Len(cr.dr_limit) : cr.dr_limit[k] <= cr.dr_limit[k - 1]
    /\ nest(cr.inline_comment_mode) =>
          \A i \in Markers(cr.regions) : \A j \in Markers(cr.regions) :
              EndsBeyond(cr.regions, i, j) => (StoppedAtPush /\ j = Len(cr.regions))
    /\ StoppedAtPush =>
          /\ nest(cr.inline_comment_mode)
          /\ cr.dr_limit # <<>>
          /\ Last(cr.regions).kind = "comment"
          /\ RegionEnd(Last(cr.regions)) > Top(cr.dr_limit)
          /\ RegionEnd(Last(cr.regions)) \notin {cr.dr_limit[k] : k \in 1..Len(cr.dr_limit)}

\* a comment was pushed on top of a comment that ends later
C18_Witness ==
    /\ cr.pc = "loop"
    /\ Len(cr.dr_limit) = 2
    /\ cr.dr_limit[2] < cr.dr_limit[1]
    /\ Cardinality(Markers(cr.regions)) = 2

----------------------------------------------------------------------------
(* The clamps on a data region *)

\* (a) no comment starts strictly inside data region i of rs; a comment emitted
\* before the region starts at or before it, so such a comment is one not emitted
ClampedToComments(rs, i) ==
    \A k \in 1..Len(doc.comments) :
        ~(rs[i].offset < doc.comments[k].offset /\ doc.comments[k].offset < RegionEnd(rs[i]))

\* (b) data region i of rs ends no later than each comment that is open where it starts
ClampedToOpenComments(rs, i) ==
    \A j \in Markers(rs) :
        (j < i /\ rs[j].length > 0 /\ rs[j].offset <= rs[i].offset
               /\ rs[i].offset < RegionEnd(rs[j]))
            => RegionEnd(rs[i]) <= RegionEnd(rs[j])

\* (c) data region i of rs lies in one type assignment
ClampedToAssignment(rs, i) ==
    \E k \in 1..Len(doc.types) :
        /\ doc.types[k].offset <= rs[i].offset
        /\ RegionEnd(rs[i]) <= doc.types[k].offset + doc.types[k].length

\* (d) data region i of rs ends within the range of the call
ClampedToRange(rs, i) == RegionEnd(rs[i]) <= cr.real_offset_base + cr.length

\* C19: every data region [o, o + len) emitted by a compile (a) has no offset of
\* a comment not yet emitted strictly inside it, in the modes that show comments,
\* (b) does not extend past the close boundary of a comment open at o, in the
\* nesting modes, (c) lies inside one type assignment and (d) does not extend past
\* real_offset_base + length.
C19_BlocksAreClamped ==
    \A i \in DataAt(cr.regions) :
        /\ cr.inline_comment_mode # ICM_HIDDEN => ClampedToComments(cr.regions, i)
        /\ nest(cr.inline_comment_mode) => ClampedToOpenComments(cr.regions, i)
        /\ ClampedToAssignment(cr.regions, i)
        /\ ClampedToRange(cr.regions, i)

\* the step that is taken emits a typed region
EmitsTyped ==
    /\ Stepping
    /\ Len(cr'.regions) > Len(cr.regions)
    /\ Last(cr'.regions).kind = "typed"

\* C20: a typed region is emitted only when the type at the cursor has a region
\* factory and the clamped length is >= its fixed size; its length is the fixed
\* size when that is > 0 and the clamped length exceeds it, otherwise the clamped
\* length rounded down to a multiple of the word size. A typed region of a type
\* without fixed size has a positive length that is a multiple of the word size,
\* one of a type with a fixed size > 0 is no longer than the fixed size.
C20_TypedLengthRule ==
    [][EmitsTyped =>
        LET made == Last(cr'.regions).length
            word == TypeAtData.word_size
            fixed == TypeAtData.region_fixed_size
        IN  /\ TypeAtData.region_factory
            /\ Clamped >= fixed
            /\ made = (IF fixed > 0 /\ Clamped > fixed
                       THEN fixed
                       ELSE Clamped - (Clamped % word))
            /\ fixed = 0 => (made > 0 /\ made % word = 0)
            /\ fixed > 0 => made <= fixed]_vars

\* a comment cut three bytes off two words, and one word of them was emitted
C20_Witness ==
    /\ doc = Scenario_Words
    /\ cr.regions # <<>>
    /\ cr.regions[1].kind = "typed"
    /\ cr.regions[1].length = BitOffset(2, 0)

\* a compile of a document without comments and with one untyped assignment
PlainCompile ==
    /\ cr.pc = "done"
    /\ doc.comments = <<>>
    /\ Len(doc.types) = 1
    /\ doc.types[1].name = ""

\* C21: every raw region emitted by the compile loop has a length that is a
\* whole number of bytes and at least 1 byte; every bit-remainder region has a
\* length strictly between 0 and 1 byte; an untyped span of b >= 1 bytes and
\* 1 <= k <= 7 bits without another boundary in it is emitted as a raw region of
\* b bytes followed by a bit-remainder region of k bits, and a range of 4 bits
\* alone gives exactly one bit-remainder region of 4 bits.
C21_RawAndBitRemainder ==
    /\ \A i \in DataAt(cr.regions) :
          /\ cr.regions[i].kind = "raw" =>
                (byte_aligned(cr.regions[i].length) /\ cr.regions[i].length >= BitOffset(1, 0))
          /\ cr.regions[i].kind = "bits" =>
                (cr.regions[i].length > 0 /\ cr.regions[i].length < BitOffset(1, 0))
    /\ (PlainCompile /\ ~byte_aligned(cr.length) /\ cr.length > BitOffset(1, 0)) =>
          cr.regions =
            << DataRegionDocHighlight(cr.real_offset_base,
                                      BitOffset(BitOffset_byte(cr.length), 0),
                                      cr.virt_offset_base),
               BitArrayRegion(cr.real_offset_base + BitOffset(BitOffset_byte(cr.length), 0),
                              BitOffset(0, BitOffset_bit(cr.length)),
                              cr.virt_offset_base + BitOffset(BitOffset_byte(cr.length), 0)) >>
    /\ (PlainCompile /\ cr.length = BitOffset(0, 4)) =>
          cr.regions = << BitArrayRegion(cr.real_offset_base, BitOffset(0, 4),
                                         cr.virt_offset_base) >>

\* a range of one byte and four bits of an untyped file was compiled
C21_Witness ==
    /\ PlainCompile
    /\ cr.length = BitOffset(1, 4)
    /\ Len(cr.regions) = 2
    /\ cr.regions[1].kind = "raw"
    /\ cr.regions[2].kind = "bits"

\* C22: at every step of a compile next_virt - virt_offset_base equals
\* next_data - real_offset_base, so every data region has virt_offset -
\* virt_offset_base = offset - real_offset_base, and next_data + remain_data
\* stays equal to real_offset_base + length.
C22_VirtualRealLockstep ==
    cr.pc # "idle" =>
        /\ cr.next_virt - cr.virt_offset_base = cr.next_data - cr.real_offset_base
        /\ cr.next_data + cr.remain_data = cr.real_offset_base + cr.length
        /\ \A i \in DataAt(cr.regions) :
              cr.regions[i].virt_offset - cr.virt_offset_base
                  = cr.regions[i].offset - cr.real_offset_base

\* a compile away from the start of both spaces has emitted two data regions
C22_Witness ==
    /\ cr.pc = "done"
    /\ cr.real_offset_base = BitOffset(1, 0)
    /\ cr.virt_offset_base = BitOffset(3, 0)
    /\ Len(DataRegions(cr.regions)) >= 2

\* the frame st is about to take a step with its type cursor on the assignment
\* that contains next_data
CursorCovers(st) ==
    /\ st.types_iter \in 1..Len(doc.types)
    /\ doc.types[st.types_iter].offset <= st.next_data
    /\ st.next_data < doc.types[st.types_iter].offset + doc.types[st.types_iter].length

TypeCursorAssertions == {"types_iter != types.end()", "types_iter covers next_data"}

\* C23: on a total partition without overlap, at the start of every step of the
\* loop the type cursor is on the assignment whose range contains next_data;
\* after a step the cursor has advanced (by one) exactly when next_data has
\* reached the upper bound of that assignment; the assertions on the type
\* cursor never fire.
C23_TypeCursor ==
    [][/\ (cr'.pc = "loop" /\ cr'.remain_data > 0) => CursorCovers(cr')
       /\ (Stepping /\ cr'.pc = "loop") =>
             /\ cr'.types_iter \in {cr.types_iter, cr.types_iter + 1}
             /\ (cr'.types_iter = cr.types_iter + 1)
                   <=> (cr'.next_data = doc.types[cr.types_iter].offset
                                            + doc.types[cr.types_iter].length)
       /\ cr'.assertion \notin TypeCursorAssertions]_vars

\* a compile went from one assignment into the next one and goes on there
C23_Witness ==
    /\ cr.pc = "loop"
    /\ cr.remain_data > 0
    /\ cr.regions # <<>>
    /\ cr.types_iter = 2
    /\ cr.next_data = doc.types[2].offset

\* the comments of the document that start in the range of the call, in pre-order
CommentsInRange ==
    SelectSeq(doc.comments,
              LAMBDA n : cr.real_offset_base <= n.offset
                           /\ n.offset < cr.real_offset_base + cr.length)

\* the comment markers of rs, in the order of emission
MarkersOf(rs) == SelectSeq(rs, LAMBDA r : r.kind = "comment")

\* marker i of rs stands, with other markers only in between, before a data
\* region that starts at the marker's offset
BeforeItsData(rs, i) ==
    \E j \in DataAt(rs) :
        /\ j > i
        /\ \A k \in (i + 1)..(j - 1) : rs[k].kind = "comment"
        /\ rs[j].offset = rs[i].offset

\* C24: in every mode but the hidden one, on a well-formed tree, a completed
\* compile has emitted exactly one marker for each comment whose offset lies in
\* [real_offset_base, real_offset_base + length), the markers are in pre-order
\* (a parent before its children), and each marker stands directly before the
\* data region that starts at its offset.
C24_CommentsInPreOrder ==
    (cr.pc = "done" /\ cr.inline_comment_mode # ICM_HIDDEN) =>
        /\ Len(MarkersOf(cr.regions)) = Len(CommentsInRange)
        /\ \A i \in 1..Len(CommentsInRange) :
              /\ MarkersOf(cr.regions)[i].offset = CommentsInRange[i].offset
              /\ MarkersOf(cr.regions)[i].length = CommentsInRange[i].length
        /\ \A i \in Markers(cr.regions) : BeforeItsData(cr.regions, i)

\* the virtual position of a compile when next_data is at the real offset o
VirtAt(o) == cr.virt_offset_base + (o - cr.real_offset_base)

\* what remains of the range of the call from the real offset o on
RemainAt(o) == cr.real_offset_base + cr.length - o

\* C25: a comment marker has its truncate flag set exactly in the modes Short
\* and Short-Indent; in Full-Indent and Short-Indent its indent sub-range starts
\* at the virtual position of its emission and has the length min(comment
\* length, remaining), so that it does not extend past the end of the compiled
\* range; in Full and Short the indent length is zero.
C25_MarkerMetadata ==
    \A i \in Markers(cr.regions) :
        LET r == cr.regions[i]
            mode == cr.inline_comment_mode
        IN  /\ r.truncate <=> mode \in {ICM_SHORT, ICM_SHORT_INDENT}
            /\ mode \in {ICM_FULL_INDENT, ICM_SHORT_INDENT} =>
                  /\ r.indent_offset = VirtAt(r.offset)
                  /\ r.indent_length = Min(r.length, RemainAt(r.offset))
                  /\ r.indent_offset + r.indent_length <= cr.virt_offset_base + cr.length
            /\ mode \in {ICM_FULL, ICM_SHORT} => r.indent_length = BitOffset_ZERO

\* in the mode Short-Indent a marker was emitted whose comment goes on beyond
\* the range of the call
C25_Witness ==
    /\ cr.inline_comment_mode = ICM_SHORT_INDENT
    /\ \E i \in Markers(cr.regions) :
          /\ cr.regions[i].truncate
          /\ cr.regions[i].indent_length > 0
          /\ cr.regions[i].indent_length < cr.regions[i].length
          /\ cr.regions[i].indent_offset > cr.regions[i].offset

\* C26: on valid input every iteration of the loop of a compile emits exactly
\* one data region of strictly positive length, so that remain_data strictly
\* decreases (and the compile comes to remain_data = 0 and returns after
\* finitely many iterations). (Checked on the calls over a whole file whose
\* assignments are whole numbers of words.)
C26_EveryIterationConsumes ==
    [][(Stepping /\ WholeFileCall /\ WholeWords(doc)) =>
        /\ cr'.pc = "loop"
        /\ Len(DataRegions(cr'.regions)) = Len(DataRegions(cr.regions)) + 1
        /\ IsData(Last(cr'.regions))
        /\ Last(cr'.regions).length > BitOffset_ZERO
        /\ cr'.remain_data < cr.remain_data
        /\ cr'.remain_data >= BitOffset_ZERO]_vars

FreshList == repopulate_regions(World).doc_ctrl

\* C27: after any sequence of change events (data insert and erase, comment,
\* type and mapping changes, changes of the inline comment mode and the display
\* mode, freeze, thaw), whenever the tab is not frozen the list last handed to
\* the document control is the list a fresh recompute of the current state would
\* produce; each recompute that is executed hands over one complete list in a
\* single call of replace_all_regions.
C27_PublishedListIsFresh ==
    Alive =>
        /\ ~tab.repopulate_regions_frozen => doc_ctrl = FreshList
        /\ hist.replaces = hist.compiles

\* a thaw has run the recompute that was asked for while frozen, in the view of
\* the virtual segments, and the process is not frozen
C27_Witness ==
    /\ Alive
    /\ ~tab.repopulate_regions_frozen
    /\ hist.thawed >= 1
    /\ hist.compiles = 1
    /\ tab.document_display_mode = DDM_VIRTUAL
    /\ doc.virt_to_real_segs # <<>>
    /\ doc_ctrl # <<>>

\* the step is a thaw
Thaws == hist'.thawed >= 0

\* the step makes a request for a recompute while not frozen, outside a thaw
RequestsUnfrozen ==
    /\ ~tab.repopulate_regions_frozen
    /\ ~Thaws
    /\ hist'.requests > 0

\* C29: between any two events the pending flag is set only while the tab is
\* frozen (not frozen implies not pending); a request for a recompute made while
\* not frozen does not set it, and every thaw leaves it cleared.
C29_PendingOnlyWhileFrozen ==
    [][/\ (Alive /\ ~tab.repopulate_regions_frozen) => ~tab.repopulate_regions_pending
       /\ (Alive' /\ ~tab'.repopulate_regions_frozen) => ~tab'.repopulate_regions_pending
       /\ (Alive' /\ RequestsUnfrozen) => ~tab'.repopulate_regions_pending
       /\ (Alive' /\ Thaws) => ~tab'.repopulate_regions_pending]_vars

\* a thaw has found the pending flag set, has run the recompute and has left
\* the flag cleared
C29_Witness ==
    /\ Alive
    /\ hist.thawed >= 1
    /\ hist.compiles = 1
    /\ ~tab.repopulate_regions_frozen
    /\ ~tab.repopulate_regions_pending
    /\ tab.document_display_mode = DDM_NORMAL

\* C30: freezes are balanced against thaws: when two or more freezes have
\* arrived, requests for a recompute stay deferred until as many thaws have
\* arrived, that is, no handler runs a compile while a freeze is outstanding.
C30_FreezesAreBalanced ==
    (Alive /\ hist.outstanding >= 1) => hist.compiles = 0

====
